---- MODULE Spec2Model ----
(***************************************************************************)
(* Model of backend/app.py: the POST /search handler `search`, the gene    *)
(* lookup `search_gene` and the summary generator `create_ai_summary`.     *)
(*                                                                         *)
(* A Python str is a sequence of chunks; a chunk is one character of the   *)
(* request's gene string (" ", "a", "B", "A") or one literal of the source *)
(* ("Gene not found", ", ", ...).  The empty str is << >>.                 *)
(* A JSON / Python value is a tagged record [t |-> tag, v |-> str].        *)
(***************************************************************************)
EXTENDS Integers, Sequences, FiniteSets, TLC

(* ------------------------------ bounds --------------------------------- *)

\* longest gene string a request carries
MaxLen == 3
\* longest id list the name search returns
MaxIds == 2
\* requests the server handles at the same time
NumThreads == 2

(* --------------------------- Python values ----------------------------- *)

Whitespace == {" "}
Chars == {" ", "a", "B"}

RECURSIVE StrsUpTo(_)
StrsUpTo(n) ==
    IF n = 0 THEN {<< >>}
    ELSE LET shorter == StrsUpTo(n - 1)
         IN  shorter \cup {Append(s, c) : s \in {t \in shorter : Len(t) = n - 1}, c \in Chars}

Str(s) == [t |-> "str", v |-> s]
PyNone == [t |-> "null", v |-> << >>]
PyTrue == [t |-> "bool", v |-> <<"true">>]
Num(digits) == [t |-> "num", v |-> digits]
Absent == [t |-> "absent", v |-> << >>]

IsStr(x) == x.t = "str"

\* bool(x) of a str
Truthy(s) == Len(s) > 0

no_strip(s) == s

\* str.strip(): drop leading, then trailing, whitespace
RECURSIVE lstrip(_)
lstrip(s) ==
    IF Len(s) > 0 /\ Head(s) \in Whitespace THEN lstrip(Tail(s)) ELSE s

RECURSIVE rstrip(_)
rstrip(s) ==
    IF Len(s) > 0 /\ s[Len(s)] \in Whitespace THEN rstrip(SubSeq(s, 1, Len(s) - 1)) ELSE s

strip(s) == rstrip(lstrip(s))

\* str.upper(), character by character
upper_char(c) == IF c = "a" THEN "A" ELSE c

upper_noop(s) == s

upper(s) == [i \in 1..Len(s) |-> upper_char(s[i])]

\* str(m) of a non-negative int: its decimal digits
Digit(d) == CASE d = 0 -> "0" [] d = 1 -> "1" [] d = 2 -> "2" [] d = 3 -> "3" [] d = 4 -> "4"
              [] d = 5 -> "5" [] d = 6 -> "6" [] d = 7 -> "7" [] d = 8 -> "8" [] d = 9 -> "9"

RECURSIVE str_int(_)
str_int(m) == IF m < 10 THEN <<Digit(m)>> ELSE Append(str_int(m \div 10), Digit(m % 10))

\* sep.join(items) for a list of str
RECURSIVE join(_, _)
join(sep, items) ==
    IF Len(items) = 0 THEN << >>
    ELSE IF Len(items) = 1 THEN items[1]
    ELSE items[1] \o sep \o join(sep, Tail(items))

\* s[:n]
slice_to(s, n) == SubSeq(s, 1, IF Len(s) < n THEN Len(s) ELSE n)

(* ------------------------------ inputs --------------------------------- *)

\* JSON bodies of POST /search: an object (with or without "gene", whose value
\* may be a str, a number or null) or a JSON value that is no object
GeneStrs == StrsUpTo(MaxLen)

GeneValues == {Absent, PyNone, Num(<<"5">>)} \cup {Str(s) : s \in GeneStrs}

Bodies ==
    {[kind |-> "object", gene |-> g] : g \in GeneValues}
        \cup {[kind |-> "array", gene |-> Absent], [kind |-> "null", gene |-> Absent]}

\* identifiers the gene database hands out
Ids == {"672", "7157"}

RECURSIVE IdListsUpTo(_)
IdListsUpTo(n) ==
    IF n = 0 THEN {<< >>}
    ELSE LET shorter == IdListsUpTo(n - 1)
         IN  shorter \cup {Append(l, i) : l \in {k \in shorter : Len(k) = n - 1}, i \in Ids}

\* what the name search (esearch) answers
EsearchReplies ==
    {[kind |-> k, idlist_present |-> FALSE, idlist |-> << >>] :
        k \in {"transport_error", "not_json", "json_array", "no_esearchresult", "ok"}}
        \cup {[kind |-> "ok", idlist_present |-> TRUE, idlist |-> l] : l \in IdListsUpTo(MaxIds)}

\* the per-gene object of the details answer (esummary): scalar fields are a
\* str, null or left out; otheraliases and mim are lists or left out
ScalarFields == {"name", "description", "summary", "chromosome", "maplocation", "geneticsource"}

AliasChoices ==
    {[present |-> FALSE, items |-> << >>], [present |-> TRUE, items |-> << >>],
     [present |-> TRUE, items |-> << <<"B", "1">> >>],
     [present |-> TRUE, items |-> << <<"B", "1">>, <<"R", "N", "F">> >>]}

MimChoices ==
    {[present |-> FALSE, items |-> << >>], [present |-> TRUE, items |-> << >>],
     [present |-> TRUE, items |-> <<113705, 7>>]}

OrganismChoices ==
    {[present |-> FALSE, scientificname |-> Absent], [present |-> TRUE, scientificname |-> Absent],
     [present |-> TRUE, scientificname |-> Str(<<"Mus musculus">>)]}

ScalarChoices ==
    {[f \in ScalarFields |-> Absent], [f \in ScalarFields |-> Str(<<"up:", f>>)],
     [f \in ScalarFields |-> IF f = "summary" THEN PyNone ELSE Str(<<"up:", f>>)]}

GeneInfos ==
    {[scalars |-> sc, otheraliases |-> a, mim |-> a2, organism |-> o] :
        sc \in ScalarChoices,
        a \in AliasChoices, a2 \in MimChoices, o \in OrganismChoices}

NoInfo == [scalars |-> [f \in ScalarFields |-> Absent],
           otheraliases |-> [present |-> FALSE, items |-> << >>],
           mim |-> [present |-> FALSE, items |-> << >>],
           organism |-> [present |-> FALSE, scientificname |-> Absent]]

\* what the details fetch (esummary) answers: ids is the key set of "result"
EsummaryRepliesOver(infos) ==
    {[kind |-> k, ids |-> {}, info |-> NoInfo] :
        k \in {"transport_error", "not_json", "no_result"}}
        \cup {[kind |-> "ok", ids |-> {}, info |-> NoInfo]}
        \cup {[kind |-> "ok", ids |-> Ids, info |-> g] : g \in infos}

\* what the language model answers
LlmReplies ==
    {[kind |-> k, candidates |-> "absent", error |-> "absent"] :
        k \in {"transport_error", "not_json", "json_array"}}
        \cup {[kind |-> "object", candidates |-> c, error |-> e] :
                c \in {"absent", "empty"}, e \in {"absent", "message", "no_message", "string"}}
        \cup {[kind |-> "object", candidates |-> c, error |-> "absent"] :
                c \in {"null", "text", "empty_text", "null_text", "no_content"}}

\* str(e) of the exception each failing answer raises in the client
TransportMessage(api) == <<"ConnectionError: ", api>>
JsonDecodeMessage == <<"Expecting value: line 1 column 1 (char 0)">>
KeyErrorMessage(key) == <<"'", key, "'">>
ListIndexMessage == <<"list indices must be integers or slices, not str">>
NoAttributeMessage(type, attr) == <<"'", type, "' object has no attribute '", attr, "'">>

(* ----------------------------- search_gene ----------------------------- *)

\* the term of the name search
esearch_term(gene_name) == gene_name \o <<"[Gene Name] AND human[Organism]">>

\* what a step of a function does next: return a value to its caller, or
\* block in an outbound call
Return(value) == [op |-> "return", value |-> value, api |-> "", arg |-> << >>]
CallOut(api, arg) == [op |-> "call", value |-> PyNone, api |-> api, arg |-> arg]

generic_error(message) == [error |-> Str(<<"Gene not found">>)]

\* the except clause of search_gene: {"error": str(e)}
error_dict(message) == [error |-> Str(message)]

\* names bound when line 48 runs: the locals of search_gene assigned so far
\* and the names of the module
search_gene_locals == {"gene_name", "url", "params", "response", "data", "gene_id"}

module_globals ==
    {"Flask", "request", "jsonify", "CORS", "requests", "os", "load_dotenv", "GEMINI_API_KEY",
     "app", "search_gene", "create_ai_summary", "search", "test"}

NameBound(name) == name \in search_gene_locals \cup module_globals

\* the f-string of line 48 reads the name gene_sid
found_gene_id_print == IF NameBound("gene_sid") THEN "printed" ELSE "NameError"

NameErrorMessage(name) == <<"name '", name, "' is not defined">>

\* search_gene from the answer of the name search to its next outbound call
after_esearch(gene_name, reply) ==
    CASE reply.kind = "transport_error" -> Return(error_dict(TransportMessage("esearch")))
      [] reply.kind = "not_json" -> Return(error_dict(JsonDecodeMessage))
      [] reply.kind = "json_array" -> Return(error_dict(ListIndexMessage))
      [] reply.kind = "no_esearchresult" -> Return(error_dict(KeyErrorMessage("esearchresult")))
      [] OTHER ->
            IF ~reply.idlist_present \/ Len(reply.idlist) = 0
            THEN Return(error_dict(<<"Gene not found">>))
            ELSE LET gene_id == reply.idlist[1]
                 IN  IF found_gene_id_print = "NameError"
                     THEN Return(error_dict(NameErrorMessage("gene_sid")))
                     ELSE CallOut("esummary", <<gene_id>>)

\* dict.get(key, default) on a scalar field of the per-gene object
get_scalar(gene_info, key, default) ==
    IF gene_info.scalars[key] = Absent THEN Str(default) ELSE gene_info.scalars[key]

aliases_field(gene_info) ==
    IF gene_info.otheraliases.present /\ Len(gene_info.otheraliases.items) > 0
    THEN Str(join(<<", ">>, gene_info.otheraliases.items))
    ELSE Str(<<"None">>)

mim_number_field(gene_info) ==
    IF gene_info.mim.present /\ Len(gene_info.mim.items) > 0
    THEN Str(join(<<", ">>, [i \in 1..Len(gene_info.mim.items) |-> str_int(gene_info.mim.items[i])]))
    ELSE Str(<<"Not available">>)

organism_field(gene_info) ==
    IF gene_info.organism.present /\ gene_info.organism.scientificname # Absent
    THEN gene_info.organism.scientificname
    ELSE Str(<<"Homo sapiens">>)

\* the dict search_gene returns for a per-gene object
gene_record(gene_name, gene_id, gene_info) ==
    [name |-> get_scalar(gene_info, "name", gene_name),
     gene_id |-> Str(<<gene_id>>),
     description |-> get_scalar(gene_info, "description", <<"No description available">>),
     summary |-> get_scalar(gene_info, "summary", <<"No summary available">>),
     chromosome |-> get_scalar(gene_info, "chromosome", <<"Unknown">>),
     map_location |-> get_scalar(gene_info, "maplocation", <<"Unknown">>),
     aliases |-> aliases_field(gene_info),
     mim_number |-> mim_number_field(gene_info),
     organism |-> organism_field(gene_info),
     gene_type |-> get_scalar(gene_info, "geneticsource", <<"Unknown">>)]

RecordFields ==
    {"name", "gene_id", "description", "summary", "chromosome", "map_location", "aliases",
     "mim_number", "organism", "gene_type"}

\* search_gene from the answer of the details fetch to its return
after_esummary(gene_name, gene_id, reply) ==
    CASE reply.kind = "transport_error" -> error_dict(TransportMessage("esummary"))
      [] reply.kind = "not_json" -> error_dict(JsonDecodeMessage)
      [] reply.kind = "no_result" -> error_dict(KeyErrorMessage("result"))
      [] OTHER ->
            IF gene_id \notin reply.ids
            THEN error_dict(KeyErrorMessage(gene_id))
            ELSE gene_record(gene_name, gene_id, reply.info)

(* -------------------------------- state -------------------------------- *)

VARIABLES
    GEMINI_API_KEY, \* module global, read from the environment at import
    phase,          \* per worker thread: "idle", "running" (inside search()), "done"
    req,            \* per worker thread: the JSON body of the request it handles
    upstream,       \* per worker thread: what the upstream services answer to its calls
    frame,          \* local variables and position of each running search()
    calls,          \* per worker thread: the outbound calls of its request, in order
    response        \* per worker thread: the response its request got

vars == <<GEMINI_API_KEY, phase, req, upstream, frame, calls, response>>

(* -------------------------- create_ai_summary -------------------------- *)

llm_url ==
    <<"https://generativelanguage.googleapis.com/v1beta/models/gemini-2.0-flash-exp:generateContent?key=">>
        \o (IF GEMINI_API_KEY.t = "null" THEN <<"None">> ELSE GEMINI_API_KEY.v)

\* gene_info.get(key, default) on the dict passed to create_ai_summary
dict_get(d, key, default) == IF key \in DOMAIN d THEN d[key] ELSE Str(default)

\* {value} inside an f-string
format(value) == IF value.t = "null" THEN <<"None">> ELSE value.v

\* characters of the gene summary that go into the prompt
SummaryPrefix == 500

Subscriptable(value) == value.t = "str"

prompt(gene_info) ==
    <<"You are a bioinformatics expert. Create a brief 3-4 sentence summary for researchers and clinicians.\n\nGene: ">>
        \o format(dict_get(gene_info, "name", <<"Unknown">>))
        \o <<"\nDescription: ">>
        \o format(dict_get(gene_info, "description", <<"No description">>))
        \o <<"\nDetails: ">>
        \o slice_to(dict_get(gene_info, "summary", <<"No details">>).v, SummaryPrefix)
        \o <<"\n\nFocus on: ... Keep it concise and professional.">>

unavailable(message) == Str(<<"AI summary unavailable: ">> \o message)
could_not_generate(error_msg) == Str(<<"Could not generate AI summary. Error: ">> \o error_msg)

\* create_ai_summary up to its outbound call: building the prompt may raise
create_ai_summary_start(gene_info) ==
    IF ~Subscriptable(dict_get(gene_info, "summary", <<"No details">>))
    THEN Return(unavailable(<<"'NoneType' object is not subscriptable">>))
    ELSE CallOut("llm", llm_url \o prompt(gene_info))

\* result['candidates'][0]['content']['parts'][0]['text'], returned as it is
candidate_text(reply) ==
    CASE reply.candidates = "text" -> Str(<<"BRCA1 repairs DNA.">>)
      [] reply.candidates = "empty_text" -> Str(<< >>)
      [] OTHER -> PyNone

\* create_ai_summary from the answer of the language model to its return
create_ai_summary_finish(reply) ==
    CASE reply.kind = "transport_error" -> unavailable(TransportMessage("llm"))
      [] reply.kind = "not_json" -> unavailable(JsonDecodeMessage)
      [] reply.kind = "json_array" -> unavailable(NoAttributeMessage("list", "get"))
      [] OTHER ->
            CASE reply.candidates = "null" ->
                    unavailable(<<"object of type 'NoneType' has no len()">>)
              [] reply.candidates = "no_content" -> unavailable(KeyErrorMessage("content"))
              [] reply.candidates \in {"text", "empty_text", "null_text"} -> candidate_text(reply)
              [] OTHER ->
                    CASE reply.error = "string" -> unavailable(NoAttributeMessage("str", "get"))
                      [] reply.error = "message" -> could_not_generate(<<"API key not valid.">>)
                      [] OTHER -> could_not_generate(<<"Unknown error">>)

(* -------------------------------- search ------------------------------- *)

Response(status, body) == [status |-> status, body |-> body]

NoResponse == Response(0, [none |-> PyNone])

\* an exception that leaves search(): the framework answers 500
Unhandled(message) == Response(500, [exception |-> Str(message)])

bad_request == Response(400, [error |-> Str(<<"Please enter a gene name">>)])

type_name(value) ==
    CASE value.t = "null" -> "NoneType" [] value.t = "num" -> "int" [] OTHER -> value.t

\* request.get_json() and data.get('gene', '').strip().upper()
normalize(data) ==
    IF data.kind # "object"
    THEN [raised |-> TRUE, gene_name |-> << >>,
          message |-> NoAttributeMessage(IF data.kind = "null" THEN "NoneType" ELSE "list", "get")]
    ELSE LET gene == IF data.gene = Absent THEN Str(<< >>) ELSE data.gene
         IN  IF ~IsStr(gene)
             THEN [raised |-> TRUE, gene_name |-> << >>,
                   message |-> NoAttributeMessage(type_name(gene), "strip")]
             ELSE [raised |-> FALSE, gene_name |-> upper(strip(gene.v)), message |-> << >>]

\* if "error" in gene_data
always_found(gene_data) == FALSE

lookup_failed(gene_data) == "error" \in DOMAIN gene_data

not_found_as_ok(gene_data) == Response(200, gene_data)

\* return jsonify(gene_data), 404
not_found(gene_data) == Response(404, gene_data)

\* the result dict of a successful search; a missing key of gene_data raises
success(gene_data, ai_summary) ==
    IF ~(RecordFields \subseteq DOMAIN gene_data)
    THEN Unhandled(KeyErrorMessage("name"))
    ELSE Response(200,
            [success |-> PyTrue,
             gene |-> gene_data.name,
             gene_id |-> gene_data.gene_id,
             description |-> gene_data.description,
             summary |-> gene_data.summary,
             chromosome |-> gene_data.chromosome,
             map_location |-> gene_data.map_location,
             aliases |-> gene_data.aliases,
             mim_number |-> gene_data.mim_number,
             organism |-> gene_data.organism,
             gene_type |-> gene_data.gene_type,
             ai_summary |-> ai_summary,
             source |-> Str(<<"NCBI Gene Database">>),
             ai_model |-> Str(<<"Google Gemini 2.0 Flash">>)])

Call(api, arg) == [api |-> api, arg |-> arg]

\* search() from the dict search_gene returned to its next outbound call
continue_search(gene_data) ==
    IF lookup_failed(gene_data)
    THEN Return(not_found(gene_data))
    ELSE LET start == create_ai_summary_start(gene_data)
         IN  IF start.op = "return"
             THEN Return(success(gene_data, start.value))
             ELSE start

\* what the two upstream services answer to one request's calls
Upstream(es, su, llm) == [es |-> es, su |-> su, llm |-> llm]

\* search() run alone on a request body: its response and its outbound calls
search(body, up) ==
    LET n == normalize(body)
    IN  IF n.raised THEN [response |-> Unhandled(n.message), calls |-> << >>]
        ELSE IF ~Truthy(n.gene_name) THEN [response |-> bad_request, calls |-> << >>]
        ELSE
        LET gene_name == n.gene_name
            calls1 == <<Call("esearch", esearch_term(gene_name))>>
            s1 == after_esearch(gene_name, up.es)
            calls2 == IF s1.op = "call" THEN Append(calls1, Call(s1.api, s1.arg)) ELSE calls1
            gene_data == IF s1.op = "call"
                         THEN after_esummary(gene_name, s1.arg[1], up.su)
                         ELSE s1.value
            s2 == continue_search(gene_data)
        IN  IF s2.op = "return"
            THEN [response |-> s2.value, calls |-> calls2]
            ELSE [response |-> success(gene_data, create_ai_summary_finish(up.llm)),
                  calls |-> Append(calls2, Call(s2.api, s2.arg))]

(* ------------------------------ the server ----------------------------- *)

\* worker threads of the server
Threads == 1..NumThreads

shared_frame(r) == 1

\* every call of search() runs in a frame of its own
FrameOf(r) == r

NoBody == [kind |-> "none", gene |-> Absent]
NoDict == [unset |-> PyNone]
NoUpstream ==
    Upstream([kind |-> "ok", idlist_present |-> FALSE, idlist |-> << >>],
             [kind |-> "ok", ids |-> {}, info |-> NoInfo],
             [kind |-> "object", candidates |-> "absent", error |-> "absent"])
NoFrame == [pc |-> "none", data |-> NoBody, gene_name |-> << >>, gene_id |-> "", gene_data |-> NoDict]

Init ==
    /\ GEMINI_API_KEY \in {PyNone, Str(<<"k">>)}
    /\ phase = [r \in Threads |-> "idle"]
    /\ req = [r \in Threads |-> NoBody]
    /\ upstream = [r \in Threads |-> NoUpstream]
    /\ frame = [r \in Threads |-> NoFrame]
    /\ calls = [r \in Threads |-> << >>]
    /\ response = [r \in Threads |-> NoResponse]

\* the function returns: its frame is gone and the response goes out
Finish(r, resp) ==
    /\ response' = [response EXCEPT ![r] = resp]
    /\ phase' = [phase EXCEPT ![r] = "done"]

\* a POST /search arrives and search() is entered
Accept(r, bodies, ups) ==
    /\ phase[r] = "idle"
    /\ phase' = [phase EXCEPT ![r] = "running"]
    /\ \E body \in bodies : req' = [req EXCEPT ![r] = body]
    /\ \E up \in ups : upstream' = [upstream EXCEPT ![r] = up]
    /\ frame' = [frame EXCEPT ![FrameOf(r)] = [NoFrame EXCEPT !.pc = "L154"]]
    /\ calls' = [calls EXCEPT ![r] = << >>]
    /\ response' = [response EXCEPT ![r] = NoResponse]
    /\ UNCHANGED GEMINI_API_KEY

\* data = request.get_json()
GetJson(r) ==
    /\ phase[r] = "running"
    /\ frame[FrameOf(r)].pc = "L154"
    /\ frame' = [frame EXCEPT ![FrameOf(r)] = [@ EXCEPT !.pc = "L155", !.data = req[r]]]
    /\ UNCHANGED <<GEMINI_API_KEY, phase, req, upstream, calls, response>>

\* gene_name = ...; the empty check; search_gene up to the name search
Normalize(r) ==
    /\ phase[r] = "running"
    /\ frame[FrameOf(r)].pc = "L155"
    /\ LET n == normalize(frame[FrameOf(r)].data)
       IN  IF n.raised \/ ~Truthy(n.gene_name)
           THEN /\ Finish(r, IF n.raised THEN Unhandled(n.message) ELSE bad_request)
                /\ frame' = [frame EXCEPT ![FrameOf(r)] = NoFrame]
                /\ UNCHANGED calls
           ELSE /\ frame' = [frame EXCEPT ![FrameOf(r)] =
                                [@ EXCEPT !.pc = "L40", !.gene_name = n.gene_name]]
                /\ calls' = [calls EXCEPT ![r] =
                                Append(@, Call("esearch", esearch_term(n.gene_name)))]
                /\ UNCHANGED <<phase, response>>
    /\ UNCHANGED <<GEMINI_API_KEY, req, upstream>>

\* a blocked search() runs on from the answer to its outbound call, to its
\* next outbound call or to its return
resume(fr, up) ==
    LET gene_data == CASE fr.pc = "L40" -> after_esearch(fr.gene_name, up.es).value
                       [] fr.pc = "L58" -> after_esummary(fr.gene_name, fr.gene_id, up.su)
                       [] OTHER -> fr.gene_data
        out == CASE fr.pc = "L40" /\ after_esearch(fr.gene_name, up.es).op = "call" ->
                        after_esearch(fr.gene_name, up.es)
                 [] fr.pc = "L126" ->
                        Return(success(fr.gene_data, create_ai_summary_finish(up.llm)))
                 [] OTHER -> continue_search(gene_data)
    IN  [out |-> out,
         frame |-> CASE out.op = "return" -> NoFrame
                     [] out.api = "esummary" -> [fr EXCEPT !.pc = "L58", !.gene_id = out.arg[1]]
                     [] OTHER -> [fr EXCEPT !.pc = "L126", !.gene_data = gene_data]]

\* the answer to the pending outbound call of thread r arrives
Reply(r) ==
    /\ phase[r] = "running"
    /\ frame[FrameOf(r)].pc \in {"L40", "L58", "L126"}
    /\ LET st == resume(frame[FrameOf(r)], upstream[r])
       IN  /\ frame' = [frame EXCEPT ![FrameOf(r)] = st.frame]
           /\ IF st.out.op = "return"
              THEN Finish(r, st.out.value) /\ UNCHANGED calls
              ELSE /\ calls' = [calls EXCEPT ![r] = Append(@, Call(st.out.api, st.out.arg))]
                   /\ UNCHANGED <<phase, response>>
    /\ UNCHANGED <<GEMINI_API_KEY, req, upstream>>

\* the response has gone out; the thread takes the next request
Close(r) ==
    /\ phase[r] = "done"
    /\ phase' = [phase EXCEPT ![r] = "idle"]
    /\ req' = [req EXCEPT ![r] = NoBody]
    /\ upstream' = [upstream EXCEPT ![r] = NoUpstream]
    /\ calls' = [calls EXCEPT ![r] = << >>]
    /\ response' = [response EXCEPT ![r] = NoResponse]
    /\ UNCHANGED <<GEMINI_API_KEY, frame>>

\* one request at a time, every body and every upstream behaviour
SampleInfos ==
    {g \in GeneInfos :
        /\ g.otheraliases.present = g.mim.present
        /\ Len(g.otheraliases.items) = Len(g.mim.items)
        /\ g.organism.present = g.otheraliases.present
        /\ (g.organism.scientificname = Absent) = (g.scalars["name"] = Absent)}

Upstreams ==
    {Upstream(es, su, llm) :
        es \in EsearchReplies, su \in EsummaryRepliesOver(SampleInfos), llm \in LlmReplies}

Next ==
    \/ Accept(1, Bodies, Upstreams)
    \/ GetJson(1)
    \/ Normalize(1)
    \/ Reply(1)
    \/ Close(1)

Spec == Init /\ [][Next]_vars

\* requests handled at the same time by different threads
ConcBodies ==
    {[kind |-> "object", gene |-> g] : g \in {Str(<<" ">>), Str(<<"a">>), Num(<<"5">>)}}

ConcUpstreams ==
    {Upstream(es, su, llm) :
        es \in {e \in EsearchReplies :
                    \/ e.kind = "transport_error"
                    \/ e.kind = "ok" /\ Len(e.idlist) = 0
                    \/ e.kind = "ok" /\ e.idlist = <<"672">>},
        su \in {[kind |-> "ok", ids |-> {}, info |-> NoInfo]},
        llm \in {[kind |-> "object", candidates |-> "text", error |-> "absent"]}}

NextConc ==
    \E r \in Threads :
        \/ Accept(r, ConcBodies, ConcUpstreams)
        \/ GetJson(r)
        \/ Normalize(r)
        \/ Reply(r)
        \/ Close(r)

SpecConc == Init /\ [][NextConc]_vars

(* ------------------------------- claims -------------------------------- *)

Done(r) == phase[r] = "done"

\* the request carries no gene symbol: no "gene", or only whitespace
Blank(s) == \A i \in 1..Len(s) : s[i] \in Whitespace
BlankGene(b) == b.kind = "object" /\ (b.gene = Absent \/ (b.gene.t = "str" /\ Blank(b.gene.v)))

\* the request carries a gene symbol
NamedGene(b) == b.kind = "object" /\ b.gene.t = "str" /\ ~Blank(b.gene.v)

Made(r, api) == \E i \in 1..Len(calls[r]) : calls[r][i].api = api

\* the gene database knows the gene: a non-empty id list, and a per-gene
\* object for its first id
NameSearchFinds(up) == up.es.kind = "ok" /\ up.es.idlist_present /\ Len(up.es.idlist) > 0
LookupSucceeds(up) ==
    NameSearchFinds(up) /\ up.su.kind = "ok" /\ up.es.idlist[1] \in up.su.ids

\* C1: a request whose gene is absent, empty or whitespace-only is answered
\* 400 {"error": "Please enter a gene name"} and makes no outbound call.
C1_EmptyGeneRejected ==
    \A r \in Threads :
        BlankGene(req[r]) =>
            /\ calls[r] = << >>
            /\ Done(r) =>
                response[r] = [status |-> 400,
                               body |-> [error |-> Str(<<"Please enter a gene name">>)]]

C1_Witness ==
    \E r \in Threads :
        /\ Done(r)
        /\ req[r].kind = "object"
        /\ req[r].gene.t = "str"
        /\ Len(req[r].gene.v) > 1
        /\ Blank(req[r].gene.v)
        /\ response[r].status = 400

\* C2: a request with a gene symbol that the gene database knows is answered
\* 200 with success true and all ten record fields present and non-null.
C2_KnownGeneSucceeds ==
    \A r \in Threads :
        (Done(r) /\ NamedGene(req[r]) /\ LookupSucceeds(upstream[r])) =>
            /\ response[r].status = 200
            /\ (RecordFields \ {"name"}) \cup {"gene", "success"} \subseteq DOMAIN response[r].body
            /\ response[r].body.success = PyTrue
            /\ \A f \in (RecordFields \ {"name"}) \cup {"gene"} : response[r].body[f].t # "null"

\* C3: when the name search answers with an empty id list or without an id
\* list, the request is answered 404 with an "error" and neither the details
\* fetch nor the language model is called.
C3_NoMatchIs404 ==
    \A r \in Threads :
        (NamedGene(req[r]) /\ upstream[r].es.kind = "ok" /\ ~NameSearchFinds(upstream[r])) =>
            /\ ~Made(r, "esummary")
            /\ ~Made(r, "llm")
            /\ Done(r) => (response[r].status = 404 /\ "error" \in DOMAIN response[r].body)

C3_Witness ==
    \E r \in Threads :
        /\ Done(r)
        /\ NamedGene(req[r])
        /\ upstream[r].es.kind = "ok"
        /\ upstream[r].es.idlist_present
        /\ Len(upstream[r].es.idlist) = 0
        /\ calls[r] # << >>
        /\ response[r].status = 404

\* C4: whatever the language model answers, a request whose lookup succeeded
\* is answered 200 with a non-empty ai_summary string.
C4_SummaryNeverFailsRequest ==
    \A r \in Threads :
        (Done(r) /\ NamedGene(req[r]) /\ LookupSucceeds(upstream[r])) =>
            /\ response[r].status = 200
            /\ "ai_summary" \in DOMAIN response[r].body
            /\ response[r].body.ai_summary.t = "str"
            /\ Len(response[r].body.ai_summary.v) > 0

\* C5: every request ends in one of the three structured responses: 200 with
\* success, 400 with an "error", 404 with an "error".
C5_AlwaysStructured ==
    \A r \in Threads :
        Done(r) =>
            \/ response[r].status = 200 /\ "success" \in DOMAIN response[r].body
            \/ response[r].status \in {400, 404} /\ "error" \in DOMAIN response[r].body

\* the alias and MIM lists as the response should show them
ExpectedAliases(info) ==
    IF ~info.otheraliases.present \/ info.otheraliases.items = << >>
    THEN <<"None">>
    ELSE join(<<", ">>, info.otheraliases.items)
ExpectedMim(info) ==
    IF ~info.mim.present \/ info.mim.items = << >>
    THEN <<"Not available">>
    ELSE join(<<", ">>, [i \in 1..Len(info.mim.items) |-> str_int(info.mim.items[i])])

\* C6: after a successful lookup the response shows the alias list and the
\* MIM list joined with ", ", or "None" / "Not available" for an empty or
\* missing list.
C6_ListsJoined ==
    \A r \in Threads :
        (Done(r) /\ NamedGene(req[r]) /\ LookupSucceeds(upstream[r])) =>
            /\ {"aliases", "mim_number"} \subseteq DOMAIN response[r].body
            /\ response[r].body.aliases = Str(ExpectedAliases(upstream[r].su.info))
            /\ response[r].body.mim_number = Str(ExpectedMim(upstream[r].su.info))

\* C7: a request handled while others are handled gets the response, and
\* makes the outbound calls, it would alone.
C7_Isolated ==
    \A r \in Threads :
        /\ Done(r) => response[r] = search(req[r], upstream[r]).response
        /\ phase[r] # "idle" =>
                /\ Len(calls[r]) <= Len(search(req[r], upstream[r]).calls)
                /\ calls[r] = SubSeq(search(req[r], upstream[r]).calls, 1, Len(calls[r]))
        /\ Done(r) => calls[r] = search(req[r], upstream[r]).calls

C7_Witness ==
    /\ phase[1] = "running"
    /\ frame[FrameOf(1)].pc = "L40"
    /\ req[1].gene = Str(<<"a">>)
    /\ Done(2)
    /\ response[2].status = 400

\* upper case of each character of a gene string
UpperCase == [c \in Chars |-> CASE c = "a" -> "A" [] c = "B" -> "B" [] OTHER -> c]

\* sym is g without its leading and trailing whitespace, in upper case
IsTrimmedUpper(sym, g) ==
    \E i \in 0..Len(g), j \in 0..Len(g) :
        /\ i + Len(sym) + j = Len(g)
        /\ \A k \in 1..i : g[k] \in Whitespace
        /\ \A k \in (Len(g) - j + 1)..Len(g) : g[k] \in Whitespace
        /\ Len(sym) > 0 => (g[i + 1] \notin Whitespace /\ g[i + Len(sym)] \notin Whitespace)
        /\ \A k \in 1..Len(sym) : sym[k] = UpperCase[g[i + k]]

\* C8: the symbol of the name search's term is the request's gene string
\* trimmed and in upper case, and is not empty.
C8_TermIsNormalizedSymbol ==
    \A r \in Threads :
        \A i \in 1..Len(calls[r]) :
            calls[r][i].api = "esearch" =>
                LET term == calls[r][i].arg
                    sym == SubSeq(term, 1, Len(term) - 1)
                IN  /\ req[r].kind = "object"
                    /\ req[r].gene.t = "str"
                    /\ Len(term) > 1
                    /\ term[Len(term)] = "[Gene Name] AND human[Organism]"
                    /\ IsTrimmedUpper(sym, req[r].gene.v)

C8_Witness ==
    \E r \in Threads :
        /\ req[r].kind = "object"
        /\ req[r].gene = Str(<<" ", "a", " ">>)
        /\ calls[r] # << >>
        /\ calls[r][1] = [api |-> "esearch", arg |-> <<"A", "[Gene Name] AND human[Organism]">>]

CallOrder == <<"esearch", "esummary", "llm">>

\* C9: the outbound calls of a request are a prefix of (name search, details
\* fetch, language model); the details fetch follows a non-empty id list and
\* the language model follows a complete record.
C9_CallsArePrefix ==
    \A r \in Threads :
        /\ Len(calls[r]) <= Len(CallOrder)
        /\ \A i \in 1..Len(calls[r]) : calls[r][i].api = CallOrder[i]
        /\ Made(r, "esummary") => NameSearchFinds(upstream[r])
        /\ Made(r, "llm") => LookupSucceeds(upstream[r])

C9_Witness ==
    \E r \in Threads :
        /\ Done(r)
        /\ NameSearchFinds(upstream[r])
        /\ Len(calls[r]) = 1
        /\ calls[r][1].api = "esearch"

EsearchFailure(es) ==
    CASE es.kind = "transport_error" -> TransportMessage("esearch")
      [] es.kind = "not_json" -> JsonDecodeMessage
      [] es.kind = "json_array" -> ListIndexMessage
      [] OTHER -> KeyErrorMessage("esearchresult")

EsummaryFailure(up) ==
    CASE up.su.kind = "transport_error" -> TransportMessage("esummary")
      [] up.su.kind = "not_json" -> JsonDecodeMessage
      [] up.su.kind = "no_result" -> KeyErrorMessage("result")
      [] OTHER -> KeyErrorMessage(up.es.idlist[1])

\* C10: a failed lookup step ends the request with 404 and the failure's
\* message as the error, without a call of the language model; a lookup
\* never leaves a record that lacks one of the ten fields.
C10_LookupFailureIs404 ==
    \A r \in Threads :
        /\ (Done(r) /\ NamedGene(req[r]) /\ upstream[r].es.kind # "ok") =>
                /\ response[r] = [status |-> 404,
                                  body |-> [error |-> Str(EsearchFailure(upstream[r].es))]]
                /\ ~Made(r, "llm")
        /\ (Done(r) /\ Made(r, "esummary") /\ ~LookupSucceeds(upstream[r])) =>
                /\ response[r] = [status |-> 404,
                                  body |-> [error |-> Str(EsummaryFailure(upstream[r]))]]
                /\ ~Made(r, "llm")
        /\ DOMAIN frame[r].gene_data \in {{"unset"}, {"error"}, RecordFields}
        /\ (Done(r) /\ response[r].status = 200) =>
                (RecordFields \ {"name"}) \cup {"gene"} \subseteq DOMAIN response[r].body

C10_Witness ==
    \E r \in Threads :
        /\ Done(r)
        /\ NamedGene(req[r])
        /\ upstream[r].es.kind = "not_json"
        /\ response[r].status = 404
        /\ Len(calls[r]) = 1

====
